---------------------------- MODULE Spec2Model ----------------------------
(***************************************************************************)
(* Model of the movie research assistant: MovieAgent (src/src/movie_agent  *)
(* .py) and the worker thread / event loop of MovieAgentGUI (src/src/      *)
(* movie_agent_gui.py).                                                    *)
(*                                                                         *)
(* Text is a sequence of tokens.  Data the code slices, strips, lowers or  *)
(* searches (queries, service responses, titles, dates) is spelled one     *)
(* character per token; the fixed chunks of an f-string template, which    *)
(* the code never takes apart, are one token each.                         *)
(*                                                                         *)
(* The external services (Gemini, TMDB, the web search) are the            *)
(* environment: every call draws its outcome from a bounded set.           *)
(***************************************************************************)
EXTENDS Integers, Sequences, FiniteSets, TLC

(* Bounds of the environment. *)
MaxPieces == 2
MaxFrags == 2

---------------------------------------------------------------------------
(* Python str operations, on token sequences. *)

RECURSIVE Flatten(_)
Flatten(ss) == IF ss = <<>> THEN <<>> ELSE Head(ss) \o Flatten(Tail(ss))

Uppers == <<"A","B","C","D","E","F","G","H","I","J","K","L","M",
            "N","O","P","Q","R","S","T","U","V","W","X","Y","Z">>
Lowers == <<"a","b","c","d","e","f","g","h","i","j","k","l","m",
            "n","o","p","q","r","s","t","u","v","w","x","y","z">>

LowerChar(c) ==
    IF \E i \in 1..Len(Uppers) : Uppers[i] = c
    THEN Lowers[CHOOSE i \in 1..Len(Uppers) : Uppers[i] = c]
    ELSE c

\* str.lower()
Lower(s) == [i \in 1..Len(s) |-> LowerChar(s[i])]

Whitespace == {" ", "\t", "\n"}

RECURSIVE LStrip(_)
LStrip(s) ==
    IF s # <<>> /\ Head(s) \in Whitespace THEN LStrip(Tail(s)) ELSE s

RECURSIVE RStrip(_)
RStrip(s) ==
    IF s # <<>> /\ s[Len(s)] \in Whitespace
    THEN RStrip(SubSeq(s, 1, Len(s) - 1))
    ELSE s

\* str.strip()
Strip(s) == RStrip(LStrip(s))

\* str.startswith(p)
StartsWith(s, p) == Len(s) >= Len(p) /\ SubSeq(s, 1, Len(p)) = p

\* str.replace(old, new): every non-overlapping occurrence, left to right.
RECURSIVE Replace(_, _, _)
Replace(s, old, new) ==
    IF Len(s) < Len(old) THEN s
    ELSE IF StartsWith(s, old)
         THEN new \o Replace(SubSeq(s, Len(old) + 1, Len(s)), old, new)
         ELSE <<Head(s)>> \o Replace(Tail(s), old, new)

\* sub in s
Contains(s, sub) ==
    \E i \in 0..(Len(s) - Len(sub)) : SubSeq(s, i + 1, i + Len(sub)) = sub

\* s[:n]
Prefix(s, n) == SubSeq(s, 1, IF Len(s) < n THEN Len(s) ELSE n)

DigitChars == <<"0","1","2","3","4","5","6","7","8","9">>

RECURSIVE Digits(_)
Digits(n) ==
    IF n < 10 THEN <<DigitChars[n + 1]>>
    ELSE Digits(n \div 10) \o <<DigitChars[(n % 10) + 1]>>

RECURSIVE Group(_)
Group(ds) ==
    IF Len(ds) <= 3 THEN ds
    ELSE Group(SubSeq(ds, 1, Len(ds) - 3)) \o <<",">>
         \o SubSeq(ds, Len(ds) - 2, Len(ds))

---------------------------------------------------------------------------
(* Python values.  A JSON document of a service is a PyDict whose fields   *)
(* are Python values; JSON null is PyNone.  A call either returns a value  *)
(* (Ok) or raises (Raise).                                                 *)

PyStr(s) == [str |-> s]
PyInt(n) == [int |-> n]
PyFloat(repr) == [float |-> repr]
PyList(l) == [list |-> l]
PyDict(r) == [dict |-> r]
PyNone == [none |-> TRUE]

IsStr(v) == "str" \in DOMAIN v
IsInt(v) == "int" \in DOMAIN v
IsFloat(v) == "float" \in DOMAIN v
IsList(v) == "list" \in DOMAIN v
IsDict(v) == "dict" \in DOMAIN v
IsNone(v) == "none" \in DOMAIN v

Ok(v) == [raised |-> FALSE, val |-> v]
Raise(e) == [raised |-> TRUE, exc |-> e]

\* bool(v), for the values the code tests.
Truthy(v) ==
    CASE IsNone(v) -> FALSE
      [] IsStr(v) -> v.str # <<>>
      [] IsList(v) -> v.list # <<>>
      [] IsInt(v) -> v.int # 0
      [] IsDict(v) -> DOMAIN v.dict # {}
      [] OTHER -> TRUE

HasKey(d, k) == k \in DOMAIN d.dict

\* d.get(k, default)
DictGet(d, k, default) == IF HasKey(d, k) THEN d.dict[k] ELSE default

\* f"{v}"
Format(v) ==
    CASE IsStr(v) -> v.str
      [] IsInt(v) -> Digits(v.int)
      [] IsFloat(v) -> v.float
      [] IsNone(v) -> <<"N","o","n","e">>
      [] OTHER -> <<"<repr>">>

\* f"{v:,}"
FormatComma(v) ==
    CASE IsInt(v) -> Ok(Group(Digits(v.int)))
      [] IsFloat(v) -> Ok(v.float)
      [] IsStr(v) -> Raise("ValueError")
      [] OTHER -> Raise("TypeError")

\* v[:4]
Slice4(v) ==
    CASE IsStr(v) -> Ok(PyStr(Prefix(v.str, 4)))
      [] IsList(v) -> Ok(PyList(Prefix(v.list, 4)))
      [] OTHER -> Raise("TypeError")

RECURSIVE JoinTokens(_, _)
JoinTokens(sep, strs) ==
    IF strs = <<>> THEN <<>>
    ELSE IF Len(strs) = 1 THEN Head(strs).str
    ELSE Head(strs).str \o sep \o JoinTokens(sep, Tail(strs))

\* sep.join(l), l a Python list
Join(sep, l) ==
    IF \A i \in 1..Len(l) : IsStr(l[i])
    THEN Ok(JoinTokens(sep, l))
    ELSE Raise("TypeError")

---------------------------------------------------------------------------
(* MovieAgent.process_user_query *)

MovieMarker == <<"m","o","v","i","e",":">>
GeneralMarker == <<"g","e","n","e","r","a","l",":">>

(* What the generative-text service does with one single-shot request:     *)
(* generate_content raises ("error": transport error, timeout, quota), the *)
(* response carries no text so that response.text raises ("notext": a      *)
(* malformed or blocked response), or it carries a text.                   *)
GeminiError == [kind |-> "error"]
GeminiNoText == [kind |-> "notext"]
GeminiText(t) == [kind |-> "text", text |-> t]

\* The alternative of process_user_query that takes the refined text of a
\* general query from the service's echo.
process_user_query_keep_echo(query, outcome) ==
    IF outcome.kind # "text" THEN <<"movie", query>>
    ELSE LET result == Lower(Strip(outcome.text))
         IN  IF StartsWith(result, MovieMarker)
             THEN <<"movie", Strip(Replace(result, MovieMarker, <<>>))>>
             ELSE <<"general", Strip(Replace(result, GeneralMarker, <<>>))>>

\* The alternative of process_user_query that lets a service failure
\* default to a general question.
process_user_query_fail_general(query, outcome) ==
    IF outcome.kind # "text" THEN <<"general", query>>
    ELSE LET result == Lower(Strip(outcome.text))
         IN  IF StartsWith(result, MovieMarker)
             THEN <<"movie", Strip(Replace(result, MovieMarker, <<>>))>>
             ELSE <<"general", query>>

\* (query_type, refined_query) for a query and the service's outcome.
process_user_query(query, outcome) ==
    IF outcome.kind # "text"
    THEN <<"movie", query>>                              \* except Exception
    ELSE LET result == Lower(Strip(outcome.text))
         IN  IF StartsWith(result, MovieMarker)
             THEN <<"movie", Strip(Replace(result, MovieMarker, <<>>))>>
             ELSE <<"general", query>>

---------------------------------------------------------------------------
(* MovieAgent.search_movie, get_movie_details, get_poster_image *)

HttpError == [kind |-> "error"]
HttpJson(doc) == [kind |-> "ok", json |-> doc]

\* requests.get + raise_for_status + json(): RequestException gives None;
\* what data["results"] raises is no RequestException and leaves the method.
search_movie(resp) ==
    IF resp.kind = "error" THEN Ok(PyNone)
    ELSE IF ~IsDict(resp.json) THEN Raise("TypeError")
    ELSE IF ~HasKey(resp.json, "results") THEN Raise("KeyError")
    ELSE LET results == resp.json.dict.results
         IN  IF Truthy(results) /\ Len(results.list) > 0
             THEN Ok(results.list[1])
             ELSE Ok(PyNone)

get_movie_details(resp) ==
    IF resp.kind = "error" THEN PyNone ELSE resp.json

\* The poster is the image the asset server returned, or None.
get_poster_image(poster_path, resp) ==
    IF ~Truthy(poster_path) THEN PyNone
    ELSE IF resp.kind = "error" THEN PyNone
    ELSE PyStr(<<"<image>">>)

---------------------------------------------------------------------------
(* MovieAgent.find_trailer *)

YouTube == PyStr(<<"YouTube">>)
Trailer == PyStr(<<"Trailer">>)
WatchPath == "youtube.com/watch"
VParam == "?v="

\* The videos the metadata tier scans: Ok(list), or the exception raised by
\* movie_data["videos"]["results"].
MetadataVideos(movie_data) ==
    IF ~(Truthy(movie_data) /\ HasKey(movie_data, "videos")) THEN Ok(<<>>)
    ELSE LET v == movie_data.dict.videos
         IN  IF ~IsDict(v) THEN Raise("TypeError")
             ELSE IF ~HasKey(v, "results") THEN Raise("KeyError")
             ELSE IF ~Truthy(v.dict.results) THEN Ok(<<>>)
             ELSE Ok(v.dict.results.list)

IsYouTubeTrailer(video) ==
    video.dict.site = YouTube /\ video.dict.type = Trailer

\* re.search(r'youtube\.com/watch\?v=([^&]+)', href): the places where the
\* pattern matches.
WatchMatches(href) ==
    {i \in 1..Len(href) :
        /\ href[i] = WatchPath
        /\ i + 2 <= Len(href)
        /\ href[i + 1] = VParam
        /\ href[i + 2] # "&"}

RECURSIVE UpToAmp(_)
UpToAmp(s) ==
    IF s = <<>> \/ Head(s) = "&" THEN <<>> ELSE <<Head(s)>> \o UpToAmp(Tail(s))

\* match.group(1) of the leftmost match
WatchId(href) ==
    LET i == CHOOSE k \in WatchMatches(href) :
                 \A j \in WatchMatches(href) : k <= j
    IN  UpToAmp(SubSeq(href, i + 2, Len(href)))

\* 'youtube.com/watch' in href, and the pattern matches
IsWatchLink(href) ==
    (\E i \in 1..Len(href) : href[i] = WatchPath) /\ WatchMatches(href) # {}

TrailerDict(title, id) ==
    PyDict([title |-> PyStr(title),
            url |-> PyStr(<<"https://www.youtube.com/watch?v=">> \o id),
            video_id |-> PyStr(id)])

\* The fallback tier: the page's hyperlinks in document order, or an error
\* of the request or of the parsing (except Exception: None).
WebError == [kind |-> "error"]
WebPage(hrefs) == [kind |-> "ok", hrefs |-> hrefs]

\* The alternative of the fallback tier that takes every hyperlink with
\* 'youtube.com/watch' in it, without matching the pattern.
FallbackTierAnyWatchLink(movie_title, web) ==
    IF web.kind = "error" THEN PyNone
    ELSE LET hasWatchPath(href) == \E i \in 1..Len(href) : href[i] = WatchPath
             youtube_links == SelectSeq(web.hrefs, hasWatchPath)
             href == Head(youtube_links)
             at == CHOOSE i \in 1..Len(href) : href[i] = WatchPath
         IN  IF youtube_links # <<>>
             THEN TrailerDict(movie_title \o <<" Trailer">>,
                              UpToAmp(SubSeq(href, at + 2, Len(href))))
             ELSE PyNone

FallbackTier(movie_title, web) ==
    IF web.kind = "error" THEN PyNone
    ELSE LET youtube_links == SelectSeq(web.hrefs, IsWatchLink)
         IN  IF youtube_links # <<>>
             THEN TrailerDict(movie_title \o <<" Trailer">>,
                              WatchId(Head(youtube_links)))
             ELSE PyNone

\* The metadata tier found no trailer: find_trailer goes on to the web
\* search.
ReachesFallback(movie_data) ==
    LET vids == MetadataVideos(movie_data)
    IN  ~vids.raised /\ SelectSeq(vids.val, IsYouTubeTrailer) = <<>>

\* The alternative of find_trailer that asks the web search first and reads
\* the catalog's videos only when the page has no trailer.
find_trailer_web_first(movie_title, year, movie_data, web) ==
    LET vids == MetadataVideos(movie_data)
        fallback == FallbackTier(movie_title, web)
    IN  IF Truthy(fallback) THEN Ok(fallback)
        ELSE IF vids.raised THEN vids
        ELSE LET hits == SelectSeq(vids.val, IsYouTubeTrailer)
             IN  IF hits # <<>>
                 THEN Ok(TrailerDict(movie_title \o <<" Official Trailer">>,
                                     Format(Head(hits).dict.key)))
                 ELSE Ok(PyNone)

\* Ok(trailer or None), or the exception the metadata tier lets through.
find_trailer(movie_title, year, movie_data, web) ==
    LET vids == MetadataVideos(movie_data)
    IN  IF vids.raised THEN vids
        ELSE LET hits == SelectSeq(vids.val, IsYouTubeTrailer)
             IN  IF hits # <<>>
                 THEN Ok(TrailerDict(movie_title \o <<" Official Trailer">>,
                                     Format(Head(hits).dict.key)))
                 ELSE Ok(FallbackTier(movie_title, web))

---------------------------------------------------------------------------
(* MovieAgent.generate_movie_response: context, prompt, fallback *)

Unknown == PyStr(<<"U","n","k","n","o","w","n">>)
Director == PyStr(<<"Director">>)
CommaSpace == <<",", " ">>

\* [member["name"] for member in members], members a Python value
NamesOf(members) ==
    IF ~IsList(members) THEN Raise("TypeError")
    ELSE IF \E i \in 1..Len(members.list) : ~IsDict(members.list[i])
         THEN Raise("TypeError")
    ELSE IF \E i \in 1..Len(members.list) : ~HasKey(members.list[i], "name")
         THEN Raise("KeyError")
    ELSE Ok(PyList([i \in 1..Len(members.list) |-> members.list[i].dict.name]))

\* movie_data.get("credits", {}).get(part, [])
CreditsPart(movie_data, part) ==
    IF ~HasKey(movie_data, "credits") THEN Ok(PyList(<<>>))
    ELSE IF ~IsDict(movie_data.dict.credits) THEN Raise("AttributeError")
    ELSE Ok(DictGet(movie_data.dict.credits, part, PyList(<<>>)))

_get_director(movie_data) ==
    LET crew == CreditsPart(movie_data, "crew")
    IN  IF crew.raised THEN crew
        ELSE IF ~IsList(crew.val) THEN Raise("TypeError")
        ELSE IF \E i \in 1..Len(crew.val.list) : ~IsDict(crew.val.list[i])
             THEN Raise("TypeError")
        ELSE IF \E i \in 1..Len(crew.val.list) :
                    ~HasKey(crew.val.list[i], "job")
             THEN Raise("KeyError")
        ELSE LET isDirector(m) == m.dict.job = Director
                 directors == NamesOf(PyList(SelectSeq(crew.val.list,
                                                       isDirector)))
             IN  IF directors.raised THEN directors
                 ELSE IF directors.val.list # <<>>
                      THEN Ok(Head(directors.val.list))
                      ELSE Ok(Unknown)

_get_cast(movie_data) ==
    LET cast == CreditsPart(movie_data, "cast")
    IN  IF cast.raised THEN cast ELSE NamesOf(cast.val)

\* The context dict of generate_movie_response, or the exception its
\* construction raises (it is built outside the try block).
BuildContext(movie_data, trailer_info) ==
    LET genres == NamesOf(DictGet(movie_data, "genres", PyList(<<>>)))
        director == _get_director(movie_data)
        cast == _get_cast(movie_data)
    IN  IF genres.raised THEN genres
        ELSE IF director.raised THEN director
        ELSE IF cast.raised THEN cast
        ELSE Ok([title |-> DictGet(movie_data, "title", Unknown),
                 release_date |-> DictGet(movie_data, "release_date", Unknown),
                 overview |-> DictGet(movie_data, "overview",
                                      PyStr(<<"No overview available">>)),
                 vote_average |-> DictGet(movie_data, "vote_average",
                                          PyStr(<<"N/A">>)),
                 genres |-> genres.val,
                 runtime |-> DictGet(movie_data, "runtime", Unknown),
                 budget |-> DictGet(movie_data, "budget", PyInt(0)),
                 revenue |-> DictGet(movie_data, "revenue", PyInt(0)),
                 director |-> director.val,
                 cast |-> cast.val,
                 trailer |-> IF Truthy(trailer_info)
                             THEN trailer_info.dict.url
                             ELSE PyStr(<<"Trailer not available">>)])

\* The prompt f-string (built outside the try block), or the exception a
\* join or a format specification raises.
BuildMoviePrompt(context) ==
    LET genres == Join(CommaSpace, context.genres.list)
        cast == Join(CommaSpace, Prefix(context.cast.list, 5))
        budget == FormatComma(context.budget)
        revenue == FormatComma(context.revenue)
    IN  IF genres.raised THEN genres
        ELSE IF cast.raised THEN cast
        ELSE IF budget.raised THEN budget
        ELSE IF revenue.raised THEN revenue
        ELSE Ok(<<"\n        Based on the following movie information, create a comprehensive and engaging summary:\n\n        Title: ">>
                \o Format(context.title)
                \o <<"\n        Release Date: ">> \o Format(context.release_date)
                \o <<"\n        Runtime: ">> \o Format(context.runtime)
                \o <<" minutes\n        Genres: ">> \o genres.val
                \o <<"\n        Rating: ">> \o Format(context.vote_average)
                \o <<"/10\n        Director: ">> \o Format(context.director)
                \o <<"\n        Main Cast: ">> \o cast.val
                \o <<"\n\n        Overview: ">> \o Format(context.overview)
                \o <<"\n\n        Budget: $">> \o budget.val
                \o <<"\n        Revenue: $">> \o revenue.val
                \o <<"\n\n        Trailer: ">> \o Format(context.trailer)
                \o <<"\n\n        Provide insights about the movie's reception, significance, and interesting facts if applicable.\n        Format the response in a clear, professional way for someone interested in learning about this movie.\n        DO NOT use markdown formatting. Use plain text formatting with clear section divisions.\n        ">>)

\* The fallback text, or the exception the slice of release_date, a join or
\* a format specification raises.
_create_fallback_response(context) ==
    LET year == Slice4(context.release_date)
        genres == Join(CommaSpace, context.genres.list)
        cast == Join(CommaSpace, Prefix(context.cast.list, 5))
        budget == FormatComma(context.budget)
        revenue == FormatComma(context.revenue)
    IN  IF year.raised THEN year
        ELSE IF genres.raised THEN genres
        ELSE IF cast.raised THEN cast
        ELSE IF budget.raised THEN budget
        ELSE IF revenue.raised THEN revenue
        ELSE Ok(<<"\n        ">> \o Format(context.title)
                \o <<" (">> \o Format(year.val)
                \o <<")\n\n        Rating: ">> \o Format(context.vote_average)
                \o <<"/10  \n        Runtime: ">> \o Format(context.runtime)
                \o <<" minutes  \n        Genres: ">> \o genres.val
                \o <<"\n\n        Overview:\n        ">>
                \o Format(context.overview)
                \o <<"\n\n        Cast & Crew:\n        Director: ">>
                \o Format(context.director)
                \o <<"  \n        Starring: ">> \o cast.val
                \o <<"\n\n        Watch Trailer:\n        ">>
                \o Format(context.trailer)
                \o <<"\n\n        Budget: $">> \o budget.val
                \o <<"  \n        Box Office: $">> \o revenue.val
                \o <<"\n        ">>)

\* The fallback of generate_general_response.
GeneralFallback(query) ==
    <<"I'm sorry, I couldn't process your query: '">> \o query
    \o <<"'. Please try asking in a different way.">>

---------------------------------------------------------------------------
(* The environment: what the user types and what the services answer. *)

\* Contents of the search entry when the user submits.
Entries == { <<>>, <<" ">>, <<"U","p">>, <<" ","u","p"," ">> }

\* The queries a caller of MovieAgent passes in.
Queries == { <<"U","p">>, <<"u","p">> }

\* Texts of the classification response: up to MaxPieces of these pieces.
Pieces == { MovieMarker, <<"M","o","v","i","e",":">>, GeneralMarker,
            <<" ">>, <<"U","p">> }

RECURSIVE TextsUpTo(_)
TextsUpTo(n) ==
    IF n = 0 THEN {<<>>}
    ELSE LET shorter == TextsUpTo(n - 1)
         IN  shorter \cup {t \o p : t \in shorter, p \in Pieces}

ClassifyOutcomes ==
    {GeminiError, GeminiNoText}
    \cup {GeminiText(t) : t \in TextsUpTo(MaxPieces)}

\* Catalog search results.
SummaryUp ==
    PyDict([id |-> PyInt(14160), title |-> PyStr(<<"U","p">>),
            release_date |-> PyStr(<<"2","0","0","9","-","0","5","-","2","8">>)])
SummaryUndated ==
    PyDict([id |-> PyInt(14161), title |-> PyStr(<<"U","p"," ","2">>)])
Summaries == {SummaryUp, SummaryUndated}

\* A JSON document of the catalog that is no result page.
StatusDocument ==
    PyDict([success |-> PyStr(<<"false">>),
            status_message |-> PyStr(<<"Internal error.">>)])

SearchResponses ==
    {HttpError, HttpJson(StatusDocument)}
    \cup {HttpJson(PyDict([results |-> PyList(l)])) :
            l \in {<<>>} \cup {<<a>> : a \in Summaries}
                  \cup {<<a, b>> : a \in Summaries, b \in Summaries}}

\* Catalog detail records.
Docter ==
    PyDict([name |-> PyStr(<<"Pete Docter">>), job |-> Director])
Rivera ==
    PyDict([name |-> PyStr(<<"Jonas Rivera">>), job |-> PyStr(<<"Producer">>)])
Asner == PyDict([name |-> PyStr(<<"Ed Asner">>)])
Featurette ==
    PyDict([site |-> YouTube, type |-> PyStr(<<"Featurette">>),
            key |-> PyStr(<<"k","0">>)])
OfficialTrailer ==
    PyDict([site |-> YouTube, type |-> Trailer, key |-> PyStr(<<"k","1">>)])
TeaserTrailer ==
    PyDict([site |-> YouTube, type |-> Trailer, key |-> PyStr(<<"k","4">>)])

DetailsUp ==
    PyDict([id |-> PyInt(14160),
            title |-> PyStr(<<"U","p">>),
            release_date |-> PyStr(<<"2","0","0","9","-","0","5","-","2","8">>),
            overview |-> PyStr(<<"A house lifted by balloons.">>),
            vote_average |-> PyFloat(<<"7",".","9">>),
            genres |-> PyList(<<PyDict([name |-> PyStr(<<"Animation">>)]),
                                PyDict([name |-> PyStr(<<"Comedy">>)])>>),
            runtime |-> PyInt(96),
            budget |-> PyInt(175000000),
            revenue |-> PyInt(735099082),
            poster_path |-> PyStr(<<"/up.jpg">>),
            credits |-> PyDict([crew |-> PyList(<<Rivera, Docter>>),
                                cast |-> PyList(<<Asner>>)]),
            videos |-> PyDict([results |->
                                 PyList(<<Featurette, OfficialTrailer>>)])])

With(d, k, v) == PyDict([d.dict EXCEPT ![k] = v])
Without(d, keys) == PyDict([k \in DOMAIN d.dict \ keys |-> d.dict[k]])

\* no trailer among the videos
DetailsNoTrailer ==
    With(DetailsUp, "videos", PyDict([results |-> PyList(<<Featurette>>)]))

DetailsRecords ==
    { DetailsUp,
      DetailsNoTrailer,
      \* two trailers among the videos
      With(DetailsUp, "videos",
           PyDict([results |-> PyList(<<Featurette, TeaserTrailer,
                                        OfficialTrailer>>)])),
      \* only the title and the id
      Without(DetailsUp, DOMAIN DetailsUp.dict \ {"id", "title"}),
      \* an unreleased film: empty date, no poster, null runtime
      With(With(With(DetailsUp, "release_date", PyStr(<<>>)),
                "poster_path", PyNone), "runtime", PyNone),
      \* JSON null where a string or a number is expected
      With(DetailsUp, "release_date", PyNone),
      With(DetailsUp, "budget", PyNone) }

DetailsResponses == {HttpError} \cup {HttpJson(d) : d \in DetailsRecords}

PosterResponses == {HttpError, [kind |-> "ok"]}

\* Hyperlinks of a web search result page.
Hrefs ==
    { <<"/search?q=up">>,
      <<"https://www.", WatchPath>>,
      <<"https://www.", WatchPath, VParam, "&", "t", "=", "1">>,
      <<"https://www.", WatchPath, "?list=", "p", "&", "v=", "k", "5">>,
      <<"https://www.", WatchPath, VParam, "k", "2">>,
      <<"/url?q=https://www.", WatchPath, VParam, "k", "3", "&", "s", "a">> }

WebOutcomes ==
    {WebError}
    \cup {WebPage(l) :
            l \in {<<>>} \cup {<<a>> : a \in Hrefs}
                  \cup {<<a, b>> : a \in Hrefs, b \in Hrefs}}

\* Fragments of a generated text.
Fragments == { <<"a">>, <<"b","c">> }

RECURSIVE FragmentSeqs(_)
FragmentSeqs(n) ==
    IF n = 0 THEN {<<>>}
    ELSE LET shorter == FragmentSeqs(n - 1)
         IN  shorter \cup {Append(fs, f) : fs \in shorter, f \in Fragments}

\* A successful response of the generative-text service carries at least
\* one fragment.
Responses == FragmentSeqs(MaxFrags) \ {<<>>}

\* Trailers a direct caller of generate_movie_response passes in.
TrailerArgs == {PyNone, TrailerDict(<<"U","p"," Official Trailer">>, <<"k","1">>)}

---------------------------------------------------------------------------
(* State *)

VARIABLES
    pc,               \* where the worker thread (or the direct caller) stands
    caller,           \* "gui": MovieAgentGUI; "direct": a caller of MovieAgent
    waiting,          \* the frame of the worker thread that does not hold
                      \* the interpreter, or NoThread
    exception,        \* the exception that ended the thread or the call, or ""
    trace,            \* the MovieAgent methods called so far, in order
    \* locals of _handle_query / _search_movie / _answer_general_query
    query, query_type, refined_query, arg, movie, movie_details, trailer,
    classification,   \* what process_user_query got from the service; once
                      \* _handle_query has gone on, only its kind
    last_response,    \* what the thread's latest requests.get was answered
    \* fields of MovieAgentGUI
    last_query_type, last_query, current_movie, trailer_info,
    \* widgets and Tk's queue of root.after(0, ...) callbacks; status is
    \* the message show_status sets (its 5 s reset to "Ready" is left out)
    status, info_text, title_label, poster_label, trailer_button,
    search_button, afterQueue,
    \* one generate_*_response call
    gen,              \* its frame: arguments, context, response_text
    emitted,          \* the fragments the service has emitted to it
    sunk,             \* the texts its callback has been called with
    ret               \* its return value

locals == <<query, query_type, refined_query, arg, movie, movie_details,
            trailer, classification, last_response>>
fields == <<last_query_type, last_query, current_movie, trailer_info>>
widgets == <<info_text, title_label, poster_label, trailer_button,
             search_button>>
call == <<gen, emitted, sunk, ret>>
vars == <<pc, caller, waiting, exception, trace, locals, fields, status,
          widgets, afterQueue, call>>

NoCall == [kind |-> "none"]
NoRequest == [to |-> "none"]
NoThread == [pc |-> "none"]
NoGen == [path |-> "none"]
NoContext == [none |-> TRUE]

InitAs(who) ==
    /\ pc = "idle"
    /\ caller = who
    /\ waiting = NoThread
    /\ exception = ""
    /\ trace = <<>>
    /\ query = <<>>
    /\ query_type = "none"
    /\ refined_query = <<>>
    /\ arg = <<>>
    /\ movie = PyNone
    /\ movie_details = PyNone
    /\ trailer = PyNone
    /\ classification = NoCall
    /\ last_response = NoRequest
    /\ last_query_type = PyNone
    /\ last_query = PyNone
    /\ current_movie = PyNone
    /\ trailer_info = PyNone
    /\ status = <<"Ready">>
    /\ info_text = <<>>
    /\ title_label = <<>>
    /\ poster_label = <<"No poster available">>
    /\ trailer_button = "disabled"
    /\ search_button = "normal"
    /\ afterQueue = <<>>
    /\ gen = NoGen
    /\ emitted = <<>>
    /\ sunk = <<>>
    /\ ret = PyNone

\* MovieAgentGUI.__init__ and setup_ui
Init == InitAs("gui")

---------------------------------------------------------------------------
(* MovieAgentGUI: the main thread submits, the worker thread handles *)

\* process_query, for the entry's contents
ProcessQuery(entry) ==
    /\ pc = "idle"
    /\ caller = "gui"
    /\ LET q == Strip(entry)
       IN  IF q = <<>>
           THEN /\ status' = <<"Please enter a question or movie title">>
                /\ UNCHANGED <<pc, query, widgets>>
           ELSE /\ status' = <<"Processing query...">>
                /\ search_button' = "disabled"
                \* clear_info
                /\ info_text' = <<>>
                /\ poster_label' = <<>>
                /\ title_label' = <<>>
                /\ trailer_button' = "disabled"
                \* threading.Thread(target=self._handle_query, args=(query,))
                /\ query' = q
                /\ pc' = "handle"
    /\ UNCHANGED <<caller, waiting, last_response, exception, trace, query_type,
                   refined_query, arg, movie, movie_details, trailer,
                   classification, fields, afterQueue, call>>

\* The frame of a generate_general_response(q, streaming, callback) call.
GeneralFrame(q, streaming, callback) ==
    [path |-> "general", query |-> q, streaming |-> streaming,
     callback |-> callback, context |-> NoContext, response_text |-> <<>>,
     failed |-> FALSE]

\* The frame of a generate_movie_response call whose context is built.
MovieFrame(context, streaming, callback) ==
    [path |-> "movie", query |-> <<>>, streaming |-> streaming,
     callback |-> callback, context |-> context, response_text |-> <<>>,
     failed |-> FALSE]

UiGeneral(q) == [cb |-> "_update_ui_for_general_query", query |-> q]
UiMovie(details, tr, poster) ==
    [cb |-> "_update_ui_for_movie", movie_details |-> details,
     trailer |-> tr, poster_image |-> poster]
UiAppend(text) == [cb |-> "_append_text", text |-> text]
UiEnable == [cb |-> "enable_search_button"]

\* The answer `got` to a requests.get sent to the service `to`.
Answered(to, got) == [to |-> to, got |-> got]

\* process_user_query: the service answers, the method returns.
Classify ==
    /\ pc = "handle"
    /\ \E outcome \in ClassifyOutcomes :
         LET r == process_user_query(query, outcome)
         IN  /\ classification' = outcome
             /\ query_type' = r[1]
             /\ refined_query' = r[2]
    /\ pc' = "classified"
    /\ trace' = Append(trace, "process_user_query")
    /\ UNCHANGED <<caller, waiting, last_response, exception, query, arg, movie, movie_details,
                   trailer, fields, status, widgets, afterQueue, call>>

\* _handle_query after process_user_query returned, up to the next call of
\* a service: _search_movie(refined_query) or _answer_general_query(query).
HandleQuery ==
    /\ pc = "classified"
    /\ caller = "gui"
    /\ last_query_type' = PyStr(<<query_type>>)
    /\ last_query' = PyStr(query)
    /\ classification' = [kind |-> classification.kind]
    /\ IF query_type = "movie"
       THEN /\ arg' = refined_query
            /\ status' = <<"Searching for movie: ">> \o refined_query
            /\ pc' = "search"
            /\ UNCHANGED <<afterQueue, gen, trace>>
       ELSE /\ arg' = query
            /\ status' = <<"Answering: ">> \o query
            /\ afterQueue' = Append(afterQueue, UiGeneral(query))
            /\ gen' = GeneralFrame(query, TRUE, TRUE)
            /\ trace' = Append(trace, "generate_general_response")
            /\ pc' = "generate"
    /\ UNCHANGED <<caller, waiting, last_response, exception, query, query_type, refined_query,
                   movie, movie_details, trailer, current_movie,
                   trailer_info, widgets, emitted, sunk, ret>>

\* The alternative of _search_movie that, on no movie for the refined
\* text, searches the catalog again for the original query.
SearchMovieRetries ==
    /\ pc = "search"
    /\ \E resp \in SearchResponses :
         LET found == search_movie(resp)
             m == found.val
         IN  /\ last_response' = Answered("search", resp)
             /\ trace' = Append(trace, "search_movie")
             /\ IF found.raised
                THEN /\ pc' = "crashed"
                     /\ exception' = found.exc
                     /\ UNCHANGED <<movie, arg, status>>
                ELSE /\ movie' = m
                     /\ arg' = IF Truthy(m) THEN arg ELSE query
                     /\ pc' = IF Truthy(m) THEN "details"
                              ELSE IF arg # query THEN "search"
                              ELSE "crashed"
                     /\ status' = IF Truthy(m)
                                  THEN <<"Found: ">> \o Format(m.dict.title)
                                       \o <<" - Getting details...">>
                                  ELSE <<"Searching for movie: ">> \o query
                     /\ UNCHANGED exception
    /\ UNCHANGED <<caller, waiting, query, query_type, refined_query,
                   movie_details, trailer, classification, fields, widgets,
                   afterQueue, call>>

\* _search_movie: search_movie returns; on no movie,
\* _handle_movie_not_found(query) and _answer_general_query(query) with
\* _search_movie's own parameter.
SearchMovie ==
    /\ pc = "search"
    /\ \E resp \in SearchResponses :
         LET found == search_movie(resp)
             m == found.val
         IN  /\ last_response' = Answered("search", resp)
             /\ IF found.raised
                THEN /\ pc' = "crashed"
                     /\ exception' = found.exc
                     /\ trace' = Append(trace, "search_movie")
                     /\ UNCHANGED <<movie, status, afterQueue, gen>>
                ELSE IF ~Truthy(m)
                THEN /\ movie' = m
                     /\ status' = <<"Answering: ">> \o arg
                     /\ afterQueue' = Append(afterQueue, UiGeneral(arg))
                     /\ gen' = GeneralFrame(arg, TRUE, TRUE)
                     /\ trace' = trace \o <<"search_movie",
                                            "generate_general_response">>
                     /\ pc' = "generate"
                     /\ UNCHANGED exception
                ELSE /\ movie' = m
                     /\ status' = <<"Found: ">> \o Format(m.dict.title)
                                  \o <<" - Getting details...">>
                     /\ trace' = Append(trace, "search_movie")
                     /\ pc' = "details"
                     /\ UNCHANGED <<exception, afterQueue, gen>>
    /\ UNCHANGED <<caller, waiting, query, query_type, refined_query, arg,
                   movie_details, trailer, classification, fields, widgets,
                   emitted, sunk, ret>>


\* The alternative of _search_movie that goes on without movie details.
FetchDetailsNoReturn ==
    /\ pc = "details"
    /\ \E resp \in DetailsResponses :
         LET details == get_movie_details(resp)
         IN  /\ movie_details' = details
             /\ last_response' = Answered("details", resp)
             /\ current_movie' = details
             /\ pc' = "trailer"
             /\ IF ~Truthy(details)
                THEN status' = <<"Error fetching details for ">>
                               \o Format(movie.dict.title)
                ELSE status' = status
    /\ trace' = Append(trace, "get_movie_details")
    /\ UNCHANGED <<caller, waiting, exception, query, query_type, refined_query, arg,
                   movie, trailer, classification, last_query_type,
                   last_query, trailer_info, widgets, afterQueue, call>>

\* _search_movie: get_movie_details returns; without details the thread
\* reports, schedules the search button's re-enabling and returns.
FetchDetails ==
    /\ pc = "details"
    /\ \E resp \in DetailsResponses :
         LET details == get_movie_details(resp)
         IN  /\ movie_details' = details
             /\ last_response' = Answered("details", resp)
             /\ IF ~Truthy(details)
                THEN /\ status' = <<"Error fetching details for ">>
                                  \o Format(movie.dict.title)
                     /\ afterQueue' = Append(afterQueue, UiEnable)
                     /\ pc' = "detail_failure"
                     /\ UNCHANGED current_movie
                ELSE /\ current_movie' = details
                     /\ pc' = "trailer"
                     /\ UNCHANGED <<status, afterQueue>>
    /\ trace' = Append(trace, "get_movie_details")
    /\ UNCHANGED <<caller, waiting, exception, query, query_type, refined_query, arg,
                   movie, trailer, classification, last_query_type,
                   last_query, trailer_info, widgets, call>>

\* The rest of _search_movie once the poster is settled: the UI update is
\* scheduled, then generate_movie_response(movie_details, tr, streaming=True,
\* callback) builds its context and its prompt and enters its try block.
\* An exception raised on the way ends the thread.
StartMovieResponse(tr, poster_image, called) ==
    LET context == BuildContext(movie_details, tr)
        prompt == IF context.raised THEN context
                  ELSE BuildMoviePrompt(context.val)
    IN  /\ afterQueue' = Append(afterQueue,
                                UiMovie(movie_details, tr, poster_image))
        /\ IF ~HasKey(movie_details, "title")
           THEN /\ pc' = "crashed"
                /\ exception' = "KeyError"
                /\ trace' = called
                /\ UNCHANGED <<status, gen>>
           ELSE /\ status' = <<"Generating information about ">>
                             \o Format(movie_details.dict.title) \o <<"...">>
                /\ trace' = Append(called, "generate_movie_response")
                /\ IF prompt.raised
                   THEN /\ pc' = "crashed"
                        /\ exception' = prompt.exc
                        /\ UNCHANGED gen
                   ELSE /\ pc' = "generate"
                        /\ gen' = MovieFrame(context.val, TRUE, TRUE)
                        /\ UNCHANGED exception

\* _search_movie: find_trailer returns.
FindTrailer ==
    /\ pc = "trailer"
    /\ \E web \in WebOutcomes :
         LET release_date == DictGet(movie, "release_date", PyNone)
             release_year == IF Truthy(release_date)
                             THEN Slice4(release_date).val
                             ELSE PyNone
             found == find_trailer(Format(movie.dict.title), release_year,
                                   movie_details, web)
             called == Append(trace, "find_trailer")
         IN  IF found.raised
             THEN /\ pc' = "crashed"
                  /\ exception' = found.exc
                  /\ trace' = called
                  /\ UNCHANGED <<trailer, trailer_info, last_response,
                                 status,
                                 afterQueue, gen>>
             ELSE /\ trailer' = found.val
                  /\ trailer_info' = found.val
                  /\ last_response' = IF ReachesFallback(movie_details)
                                 THEN Answered("web", web)
                                 ELSE last_response
                  /\ IF Truthy(DictGet(movie_details, "poster_path", PyNone))
                     THEN /\ pc' = "poster"
                          /\ trace' = called
                          /\ UNCHANGED <<exception, status, afterQueue, gen>>
                     ELSE StartMovieResponse(found.val, PyNone, called)
    /\ UNCHANGED <<caller, waiting, query, query_type, refined_query, arg, movie,
                   movie_details, classification, last_query_type,
                   last_query, current_movie, widgets, emitted, sunk, ret>>

\* _search_movie: get_poster_image returns.
LoadPoster ==
    /\ pc = "poster"
    /\ \E resp \in PosterResponses :
         /\ last_response' = Answered("poster", resp)
         /\ StartMovieResponse(
                trailer,
                get_poster_image(movie_details.dict.poster_path, resp),
                Append(trace, "get_poster_image"))
    /\ UNCHANGED <<caller, waiting, query, query_type, refined_query, arg,
                   movie, movie_details, trailer, classification, fields,
                   widgets, emitted, sunk, ret>>

---------------------------------------------------------------------------
(* generate_movie_response / generate_general_response: the try block *)

\* The alternative of the accumulation that assigns instead of appending.
AccumulateLast(response_text, piece) == piece

\* response_text += piece
Accumulate(response_text, piece) == response_text \o piece

\* callback(text).  The GUI's callback hands the text to the event loop:
\* lambda text: self.root.after(0, lambda: self._append_text(text)).
Callback(text) ==
    /\ sunk' = Append(sunk, text)
    /\ afterQueue' = IF caller = "gui"
                     THEN Append(afterQueue, UiAppend(text))
                     ELSE afterQueue

Streaming == gen.streaming /\ gen.callback

\* The alternative of the loop body that hands the callback the text
\* accumulated so far instead of the piece.
StreamChunkSendsAccumulated ==
    /\ pc = "generate"
    /\ Streaming
    /\ Len(emitted) < MaxFrags
    /\ \E piece \in Fragments :
         /\ emitted' = Append(emitted, piece)
         /\ gen' = [gen EXCEPT
                      !.response_text = Accumulate(@, piece)]
         /\ Callback(Accumulate(gen.response_text, piece))
    /\ UNCHANGED <<pc, caller, waiting, exception, trace, locals, fields, status,
                   widgets, ret>>

\* One turn of `for chunk in generate_content(prompt, stream=True)`.
StreamChunk ==
    /\ pc = "generate"
    /\ Streaming
    /\ Len(emitted) < MaxFrags
    /\ \E piece \in Fragments :
         /\ emitted' = Append(emitted, piece)
         /\ gen' = [gen EXCEPT
                      !.response_text = Accumulate(@, piece)]
         /\ Callback(piece)
    /\ UNCHANGED <<pc, caller, waiting, exception, trace, locals, fields, status,
                   widgets, ret>>

\* The stream ends: return response_text.
StreamEnd ==
    /\ pc = "generate"
    /\ Streaming
    /\ emitted # <<>>
    /\ ret' = PyStr(gen.response_text)
    /\ pc' = "done"
    /\ UNCHANGED <<caller, waiting, exception, trace, locals, fields, status,
                   widgets, afterQueue, gen, emitted, sunk>>

\* The non-streaming branch: return response.text.
SingleShot ==
    /\ pc = "generate"
    /\ ~Streaming
    /\ \E response \in Responses :
         /\ emitted' = response
         /\ ret' = PyStr(Flatten(response))
    /\ pc' = "done"
    /\ UNCHANGED <<caller, waiting, exception, trace, locals, fields, status,
                   widgets, afterQueue, gen, sunk>>

\* The text the except block falls back to.
FallbackText ==
    IF gen.path = "movie"
    THEN _create_fallback_response(gen.context)
    ELSE Ok(GeneralFallback(gen.query))

\* The except block: generate_content, the iteration or .text raised.  An
\* exception raised while the fallback is built leaves the method.
GenerateFails ==
    /\ pc = "generate"
    /\ gen' = [gen EXCEPT !.failed = TRUE]
    /\ IF FallbackText.raised
       THEN /\ pc' = "crashed"
            /\ exception' = FallbackText.exc
            /\ UNCHANGED <<sunk, afterQueue, ret>>
       ELSE /\ IF gen.callback
               THEN Callback(FallbackText.val)
               ELSE UNCHANGED <<sunk, afterQueue>>
            /\ ret' = PyStr(FallbackText.val)
            /\ pc' = "done"
            /\ UNCHANGED exception
    /\ UNCHANGED <<caller, waiting, trace, locals, fields, status, widgets, emitted>>

---------------------------------------------------------------------------
(* The event loop (main thread) *)

QueryLabelLimit == 30

\* The title text of _update_ui_for_movie, or the exception it raises.
MovieTitleText(details) ==
    IF ~HasKey(details, "title") THEN Raise("KeyError")
    ELSE LET release_date == DictGet(details, "release_date", PyNone)
             year == Slice4(release_date)
         IN  IF ~Truthy(release_date) THEN Ok(Format(details.dict.title))
             ELSE IF year.raised THEN year
             ELSE Ok(Format(details.dict.title) \o <<" (">>
                     \o Format(year.val) \o <<")">>)

\* Tk runs the oldest pending root.after(0, ...) callback.  An exception in
\* a callback is reported by Tk and ends that callback only.
RunAfter ==
    /\ afterQueue # <<>>
    /\ afterQueue' = Tail(afterQueue)
    /\ LET e == Head(afterQueue)
       IN  CASE e.cb = "_append_text" ->
                  /\ info_text' = info_text \o e.text
                  /\ status' = IF e.text # <<>> THEN <<"Ready">> ELSE status
                  /\ UNCHANGED <<title_label, poster_label, trailer_button,
                                 search_button>>
             [] e.cb = "_update_ui_for_general_query" ->
                  /\ poster_label' = <<>>
                  /\ title_label' =
                        IF Len(e.query) > QueryLabelLimit
                        THEN <<"Query: ">> \o Prefix(e.query, QueryLabelLimit)
                             \o <<"...">>
                        ELSE <<"Query: ">> \o e.query
                  /\ trailer_button' = "disabled"
                  /\ search_button' = "normal"
                  /\ UNCHANGED <<info_text, status>>
             [] e.cb = "_update_ui_for_movie" ->
                  LET title_text == MovieTitleText(e.movie_details)
                  IN  IF title_text.raised
                      THEN UNCHANGED <<widgets, status>>
                      ELSE /\ title_label' = title_text.val
                           /\ poster_label' =
                                 IF Truthy(e.poster_image)
                                 THEN <<"<image>">>
                                 ELSE <<"No poster available">>
                           /\ trailer_button' = IF Truthy(e.trailer)
                                                THEN "normal"
                                                ELSE "disabled"
                           /\ search_button' = "normal"
                           /\ UNCHANGED <<info_text, status>>
             [] e.cb = "enable_search_button" ->
                  /\ search_button' = "normal"
                  /\ UNCHANGED <<info_text, title_label, poster_label,
                                 trailer_button, status>>
    /\ UNCHANGED <<pc, caller, waiting, exception, trace, locals, fields, call>>

\* The application: one submitted query, its worker thread, the event loop.
Next ==
    \/ \E entry \in Entries : ProcessQuery(entry)
    \/ Classify
    \/ HandleQuery
    \/ SearchMovie
    \/ FetchDetails
    \/ FindTrailer
    \/ LoadPoster
    \/ StreamChunk
    \/ StreamEnd
    \/ GenerateFails
    \/ RunAfter

Spec == Init /\ [][Next]_vars

\* A step of the worker thread that process_query started.
Worker ==
    \/ Classify
    \/ HandleQuery
    \/ SearchMovie
    \/ FetchDetails
    \/ FindTrailer
    \/ LoadPoster
    \/ StreamChunk
    \/ StreamEnd
    \/ GenerateFails

\* The application with its scheduling: a worker thread that can take a
\* step takes one (each service call returns or times out), and the event
\* loop runs every pending root.after callback.
SpecLive == Init /\ [][Next]_vars /\ WF_vars(Worker) /\ WF_vars(RunAfter)

---------------------------------------------------------------------------
(* MovieAgent called directly: one call of one method, with both modes of  *)
(* generate_*_response.                                                    *)

InitAgent == InitAs("direct")

\* process_user_query(q)
CallProcessUserQuery ==
    /\ pc = "idle"
    /\ caller = "direct"
    /\ \E q \in Queries : query' = q
    /\ pc' = "handle"
    /\ UNCHANGED <<caller, waiting, last_response, exception, trace, query_type, refined_query, arg,
                   movie, movie_details, trailer, classification, fields,
                   status, widgets, afterQueue, call>>

\* generate_movie_response(details, tr, streaming, callback), up to its try
\* block.
CallGenerateMovieResponse ==
    /\ pc = "idle"
    /\ caller = "direct"
    /\ \E details \in DetailsRecords, tr \in TrailerArgs,
          streaming \in BOOLEAN, callback \in BOOLEAN :
         LET context == BuildContext(details, tr)
             prompt == IF context.raised THEN context
                       ELSE BuildMoviePrompt(context.val)
         IN  /\ movie_details' = details
             /\ trailer' = tr
             /\ IF prompt.raised
                THEN /\ pc' = "crashed"
                     /\ exception' = prompt.exc
                     /\ UNCHANGED gen
                ELSE /\ pc' = "generate"
                     /\ gen' = MovieFrame(context.val, streaming, callback)
                     /\ UNCHANGED exception
    /\ trace' = Append(trace, "generate_movie_response")
    /\ UNCHANGED <<caller, waiting, last_response, query, query_type, refined_query, arg, movie,
                   classification, fields, status, widgets, afterQueue,
                   emitted, sunk, ret>>

\* generate_general_response(q, streaming, callback), up to its try block.
CallGenerateGeneralResponse ==
    /\ pc = "idle"
    /\ caller = "direct"
    /\ \E q \in Queries, streaming \in BOOLEAN, callback \in BOOLEAN :
         /\ query' = q
         /\ gen' = GeneralFrame(q, streaming, callback)
    /\ pc' = "generate"
    /\ trace' = Append(trace, "generate_general_response")
    /\ UNCHANGED <<caller, waiting, last_response, exception, query_type, refined_query, arg, movie,
                   movie_details, trailer, classification, fields, status,
                   widgets, afterQueue, emitted, sunk, ret>>

NextAgent ==
    \/ CallProcessUserQuery
    \/ Classify
    \/ CallGenerateMovieResponse
    \/ CallGenerateGeneralResponse
    \/ StreamChunk
    \/ StreamEnd
    \/ SingleShot
    \/ GenerateFails

SpecAgent == InitAgent /\ [][NextAgent]_vars

---------------------------------------------------------------------------
(* Overlapping queries.  process_query starts a new worker thread for each  *)
(* query and waits for none: the Return key in the search entry calls it    *)
(* whatever the state of the search button, and the UI update that enables  *)
(* the button again is scheduled before the text is generated.  Two worker  *)
(* threads take turns at the interpreter; the variables of the thread that  *)
(* does not hold it are kept in `waiting`.                                  *)

\* The frame of the worker thread that holds the interpreter.
Frame ==
    [pc |-> pc, exception |-> exception, trace |-> trace, query |-> query,
     query_type |-> query_type, refined_query |-> refined_query,
     arg |-> arg, movie |-> movie, movie_details |-> movie_details,
     trailer |-> trailer, classification |-> classification,
     last_response |-> last_response, gen |-> gen, emitted |-> emitted,
     sunk |-> sunk, ret |-> ret]

\* The frame f, set aside; latest: it is the thread of the latest query.
Parked(f, latest) ==
    [pc |-> f.pc, exception |-> f.exception, trace |-> f.trace,
     query |-> f.query, query_type |-> f.query_type,
     refined_query |-> f.refined_query, arg |-> f.arg, movie |-> f.movie,
     movie_details |-> f.movie_details, trailer |-> f.trailer,
     classification |-> f.classification,
     last_response |-> f.last_response, gen |-> f.gen,
     emitted |-> f.emitted, sunk |-> f.sunk, ret |-> f.ret,
     latest |-> latest]

(* Bounds of the interleavings.  A behaviour has at most two queries.  The  *)
(* second is submitted while the first query's thread waits for the poster  *)
(* of the film "Up" it found after a failed classification.  The second     *)
(* query's thread runs alone until its poster is settled; the threads take  *)
(* turns from there on if the second query was "up", found the same film    *)
(* after a failed classification, and got details without a trailer and no  *)
(* trailer from the web.                                                    *)
SecondQueryPoint ==
    /\ pc = "poster"
    /\ query = <<"U","p">>
    /\ classification.kind = "error"
    /\ movie = SummaryUp
    /\ movie_details = DetailsUp

TurnPoint(second) ==
    /\ second.pc \in {"generate", "done"}
    /\ second.query = <<"u","p">>
    /\ second.classification.kind = "error"
    /\ second.movie = SummaryUp
    /\ second.movie_details = DetailsNoTrailer
    /\ second.trailer = PyNone

\* process_query while a worker thread exists: the new thread starts with
\* the interpreter, the other thread waits.
Resubmit(entry) ==
    /\ caller = "gui"
    /\ waiting = NoThread
    /\ SecondQueryPoint
    /\ LET q == Strip(entry)
       IN  IF q = <<>>
           THEN /\ status' = <<"Please enter a question or movie title">>
                /\ UNCHANGED <<pc, waiting, exception, trace, locals,
                               widgets, call>>
           ELSE /\ status' = <<"Processing query...">>
                /\ search_button' = "disabled"
                \* clear_info
                /\ info_text' = <<>>
                /\ poster_label' = <<>>
                /\ title_label' = <<>>
                /\ trailer_button' = "disabled"
                \* threading.Thread(target=self._handle_query, args=(query,))
                /\ waiting' = Parked(Frame, FALSE)
                /\ query' = q
                /\ pc' = "handle"
                /\ exception' = ""
                /\ trace' = <<>>
                /\ query_type' = "none"
                /\ refined_query' = <<>>
                /\ arg' = <<>>
                /\ movie' = PyNone
                /\ movie_details' = PyNone
                /\ trailer' = PyNone
                /\ classification' = NoCall
                /\ last_response' = NoRequest
                /\ gen' = NoGen
                /\ emitted' = <<>>
                /\ sunk' = <<>>
                /\ ret' = PyNone
    /\ UNCHANGED <<caller, fields, afterQueue>>

\* The interpreter passes from one worker thread to the other.
Switch ==
    /\ waiting # NoThread
    /\ TurnPoint(IF waiting.latest THEN waiting ELSE Frame)
    /\ waiting' = Parked(Frame, ~waiting.latest)
    /\ pc' = waiting.pc
    /\ exception' = waiting.exception
    /\ trace' = waiting.trace
    /\ query' = waiting.query
    /\ query_type' = waiting.query_type
    /\ refined_query' = waiting.refined_query
    /\ arg' = waiting.arg
    /\ movie' = waiting.movie
    /\ movie_details' = waiting.movie_details
    /\ trailer' = waiting.trailer
    /\ classification' = waiting.classification
    /\ last_response' = waiting.last_response
    /\ gen' = waiting.gen
    /\ emitted' = waiting.emitted
    /\ sunk' = waiting.sunk
    /\ ret' = waiting.ret
    /\ UNCHANGED <<caller, fields, status, widgets, afterQueue>>

\* The application with a second query submitted before the first is done.
NextOverlap ==
    \/ Next
    \/ \E entry \in Entries : Resubmit(entry)
    \/ Switch

SpecOverlap == Init /\ [][NextOverlap]_vars

---------------------------------------------------------------------------
(* Properties *)

Called(method) == \E i \in 1..Len(trace) : trace[i] = method

ClassifierFailed == classification.kind \in {"error", "notext"}

\* get_movie_details was called and gave no details.
DetailsUnavailable == Called("get_movie_details") /\ ~Truthy(movie_details)

\* get_movie_details was called and gave details.
DetailsFetched == Called("get_movie_details") /\ Truthy(movie_details)

\* The _append_text callbacks still waiting in the event loop's queue.
PendingAppends ==
    LET isAppend(e) == e.cb = "_append_text"
        pending == SelectSeq(afterQueue, isAppend)
    IN  [i \in 1..Len(pending) |-> pending[i].text]

\* C1: when a query classified as movie, with a title extracted, finds no
\* movie in the catalog, the general response is generated, and for the
\* original query, not for the refined title.
C1_NotFoundAnswersOriginalQuery ==
    (/\ query_type = "movie"
     /\ refined_query # <<>>
     /\ Called("search_movie")
     /\ last_response.to = "search"
     /\ ~search_movie(last_response.got).raised
     /\ ~Truthy(movie))
        => /\ Called("generate_general_response")
           /\ gen.path = "general"
           /\ gen.query = query

\* C2: when the catalog has the movie but gives no details, the query ends
\* there: no trailer resolution, no synthesis, nothing handed to the sink
\* or shown.
C2_DetailFailureIsTerminal ==
    DetailsUnavailable
        => /\ pc = "detail_failure"
           /\ ~Called("find_trailer")
           /\ ~Called("get_poster_image")
           /\ ~Called("generate_movie_response")
           /\ ~Called("generate_general_response")
           /\ gen = NoGen
           /\ sunk = <<>>
           /\ PendingAppends = <<>>
           /\ info_text = <<>>

C2_Witness ==
    /\ pc = "detail_failure"
    /\ trace = <<"process_user_query", "search_movie", "get_movie_details">>
    /\ afterQueue = <<>>
    /\ search_button = "normal"

\* C3: once the details are fetched, no service failure aborts the query:
\* a failure of the generative-text service is answered with a text, and a
\* query that ends has called generate_movie_response and delivered text.
C3_FetchedDetailsAlwaysAnswered ==
    DetailsFetched
        => /\ gen.path = "movie" /\ gen.failed
                => pc = "done" /\ sunk # <<>>
           /\ pc = "done"
                => Called("generate_movie_response") /\ sunk # <<>>

\* C4: when the generative-text service fails, the call returns a
\* non-empty text that contains the movie's title (movie path) or the query
\* (general path); it does not raise.
C4_FailureYieldsFallbackText ==
    (gen.path # "none" /\ gen.failed)
        => /\ pc = "done"
           /\ IsStr(ret)
           /\ ret.str # <<>>
           /\ Contains(ret.str, IF gen.path = "movie"
                                THEN Format(movie_details.dict.title)
                                ELSE gen.query)

\* C5: a call that the service answered successfully returns the text of
\* the response, the concatenation of its fragments, in streaming mode as
\* in single-shot mode.
C5_StreamingEqualsSingleShot ==
    (pc = "done" /\ gen.path # "none" /\ ~gen.failed)
        => ret = PyStr(Flatten(emitted))

C5_Witness ==
    /\ pc = "done"
    /\ Streaming
    /\ ~gen.failed
    /\ Len(emitted) = 2
    /\ emitted[1] # emitted[2]
    /\ ret = PyStr(emitted[1] \o emitted[2])

\* C6: the callback is called once per fragment, in the order the service
\* emits them (only the fallback of a failed call follows them), and the
\* display shows the texts in the order the callback got them.
C6_SinkFollowsEmissionOrder ==
    LET shown == Len(sunk) - Len(PendingAppends)
    IN  /\ Len(sunk) >= Len(emitted)
        /\ SubSeq(sunk, 1, Len(emitted)) = emitted
        /\ Len(sunk) <= Len(emitted) + 1
        /\ ~(gen.path # "none" /\ gen.failed) => sunk = emitted
        /\ shown >= 0
        /\ PendingAppends = SubSeq(sunk, shown + 1, Len(sunk))
        /\ info_text = Flatten(SubSeq(sunk, 1, shown))

C6_Witness ==
    /\ pc = "done"
    /\ ~gen.failed
    /\ Len(emitted) = 2
    /\ emitted[1] # emitted[2]
    /\ sunk = emitted
    /\ afterQueue = <<>>
    /\ info_text = emitted[1] \o emitted[2]

\* C7: when the service fails in a streaming call with a callback, the
\* fallback text goes to the callback as one text, after the fragments
\* already delivered, and is the call's return value.
C7_FallbackGoesThroughSink ==
    (gen.path # "none" /\ gen.failed /\ Streaming)
        => /\ pc = "done"
           /\ ~FallbackText.raised
           /\ ret = PyStr(FallbackText.val)
           /\ sunk = Append(emitted, FallbackText.val)

\* C8: a failure of the classification request is not surfaced: the query
\* is taken as a movie query with the original text, and the catalog search
\* is what follows.
C8_ClassifierFailsOpen ==
    ClassifierFailed
        => /\ query_type = "movie"
           /\ refined_query = query
           /\ pc = "classified" => exception = ""
           /\ pc # "classified" =>
                /\ arg = query
                /\ pc = "search" \/ Called("search_movie")
                /\ trace[1] = "process_user_query"
                /\ Len(trace) > 1 => trace[2] = "search_movie"

C8_Witness ==
    /\ ClassifierFailed
    /\ caller = "gui"
    /\ pc = "details"
    /\ trace = <<"process_user_query", "search_movie">>

\* C9: a query classified as general keeps its original text as refined
\* text, whatever the service echoed, and that text is what the general
\* response is generated for.
C9_GeneralKeepsOriginalQuery ==
    query_type = "general"
        => /\ refined_query = query
           /\ gen.path # "none" => gen.path = "general" /\ gen.query = query

\* The text after the leading marker of a classification response.
AfterMarker(text, marker) ==
    Strip(SubSeq(Strip(text), Len(marker) + 1, Len(Strip(text))))

C9_Witness ==
    /\ pc = "classified"
    /\ query_type = "general"
    /\ classification.kind = "text"
    /\ StartsWith(Strip(classification.text), GeneralMarker)
    /\ AfterMarker(classification.text, GeneralMarker) # <<>>
    /\ AfterMarker(classification.text, GeneralMarker) # query

\* C10: a response that starts with the movie: marker, in any case, gives
\* a movie query whose refined text is the text after that marker as the
\* service wrote it; any other response gives a general query.
C10_MovieTitleIsTrailingText ==
    (pc = "classified" /\ classification.kind = "text")
        => IF StartsWith(Lower(Strip(classification.text)), MovieMarker)
           THEN /\ query_type = "movie"
                /\ refined_query = AfterMarker(classification.text,
                                               MovieMarker)
           ELSE query_type = "general"

---------------------------------------------------------------------------
(* Trailer resolution and catalog search *)

\* The thread's find_trailer call has returned.
TrailerResolved == Called("find_trailer") /\ exception = ""

\* The YouTube trailers among the videos of the fetched details, in list
\* order.
MetadataMatches ==
    LET vids == MetadataVideos(movie_details)
    IN  IF vids.raised THEN <<>> ELSE SelectSeq(vids.val, IsYouTubeTrailer)

\* The arguments _search_movie calls find_trailer with.
TrailerTitle == Format(movie.dict.title)
TrailerYear ==
    IF Truthy(DictGet(movie, "release_date", PyNone))
    THEN Slice4(movie.dict.release_date).val
    ELSE PyNone

\* C11: when the videos of the details hold a YouTube trailer, find_trailer
\* returns the trailer of the first such video, titled "<title> Official
\* Trailer", sends no web search, and would return the same whatever the
\* web search answered.
C11_MetadataTierFirst ==
    (TrailerResolved /\ MetadataMatches # <<>>)
        => /\ trailer = TrailerDict(TrailerTitle \o <<" Official Trailer">>,
                                    Head(MetadataMatches).dict.key.str)
           /\ last_response.to # "web"
           /\ \A web \in WebOutcomes :
                 find_trailer(TrailerTitle, TrailerYear, movie_details, web)
                     = Ok(trailer)

C11_Witness ==
    /\ pc = "poster"
    /\ Len(MetadataMatches) = 2
    /\ MetadataMatches[1] # MetadataMatches[2]
    /\ trailer.dict.video_id = MetadataMatches[1].dict.key
    /\ last_response.to = "details"

\* href matches watch?v=<id> at token i, with the non-empty id.
WatchPatternAt(href, i, id) ==
    /\ i + 1 + Len(id) <= Len(href)
    /\ href[i] = WatchPath
    /\ href[i + 1] = VParam
    /\ id # <<>>
    /\ id = SubSeq(href, i + 2, i + 1 + Len(id))
    /\ \A k \in 1..Len(id) : id[k] # "&"
    /\ i + 2 + Len(id) <= Len(href) => href[i + 2 + Len(id)] = "&"

MatchesWatchPattern(href) ==
    \E i \in 1..Len(href), n \in 1..Len(href) :
        i + 1 + n <= Len(href)
        /\ WatchPatternAt(href, i, SubSeq(href, i + 2, i + 1 + n))

\* C12: when the videos hold no trailer, find_trailer returns the first
\* hyperlink of the page, in document order, that matches watch?v=<id>,
\* titled "<title> Trailer", with the url and the video id made of the
\* matched id; it returns None when no hyperlink matches and when the
\* request or the parsing fails.
C12_FallbackTakesFirstWatchLink ==
    (TrailerResolved /\ last_response.to = "web")
        => LET web == last_response.got
               hrefs == IF web.kind = "error" THEN <<>> ELSE web.hrefs
           IN  IF \A k \in 1..Len(hrefs) : ~MatchesWatchPattern(hrefs[k])
               THEN trailer = PyNone
               ELSE /\ IsDict(trailer)
                    /\ trailer.dict.title
                           = PyStr(TrailerTitle \o <<" Trailer">>)
                    /\ trailer.dict.url
                           = PyStr(<<"https://www.youtube.com/watch?v=">>
                                   \o trailer.dict.video_id.str)
                    /\ \E k \in 1..Len(hrefs) :
                          /\ \A j \in 1..(k - 1) :
                                ~MatchesWatchPattern(hrefs[j])
                          /\ \E i \in 1..Len(hrefs[k]) :
                                WatchPatternAt(hrefs[k], i,
                                               trailer.dict.video_id.str)

C12_Witness ==
    /\ pc = "poster"
    /\ last_response.to = "web"
    /\ last_response.got.kind = "ok"
    /\ Len(last_response.got.hrefs) = 2
    /\ ~MatchesWatchPattern(last_response.got.hrefs[1])
    /\ \E i \in 1..Len(last_response.got.hrefs[1]) :
          last_response.got.hrefs[1][i] = WatchPath
    /\ MatchesWatchPattern(last_response.got.hrefs[2])
    /\ trailer.dict.video_id = PyStr(<<"k", "3">>)

\* C13: search_movie returns the first element of the catalog's result list
\* when the list is not empty and None otherwise, whatever the catalog
\* answered, and raises nothing into _search_movie.
C13_SearchGivesFirstResultOrNotFound ==
    (Called("search_movie") /\ last_response.to = "search")
        => LET r == last_response.got
               results == IF r.kind = "ok" /\ HasKey(r.json, "results")
                          THEN r.json.dict.results.list
                          ELSE <<>>
           IN  /\ exception = ""
               /\ movie = IF results # <<>> THEN results[1] ELSE PyNone

---------------------------------------------------------------------------
(* The course of one query *)

\* The thread of the query has ended: its target returned or raised.
Ended == pc \in {"done", "detail_failure", "crashed"}

MovieResponse ==
    /\ pc = "done"
    /\ gen.path = "movie"
    /\ sunk # <<>>
    /\ IsStr(ret)

GeneralResponse ==
    /\ pc = "done"
    /\ gen.path = "general"
    /\ sunk # <<>>
    /\ IsStr(ret)

DetailFailure ==
    /\ pc = "detail_failure"
    /\ DetailsUnavailable
    /\ sunk = <<>>

\* C14: a query whose thread has ended has given a movie response, a
\* general response or the report of the failed detail fetch, and only one
\* of them: no query ends with none.
C14_EveryQueryHasAnOutcome ==
    Ended
        => /\ MovieResponse \/ GeneralResponse \/ DetailFailure
           /\ ~(MovieResponse /\ GeneralResponse)
           /\ ~(MovieResponse /\ DetailFailure)
           /\ ~(GeneralResponse /\ DetailFailure)

\* The stages called so far: the calls of the trace but the poster's.
RECURSIVE Stages(_)
Stages(calls) ==
    IF calls = <<>> THEN <<>>
    ELSE IF Head(calls) = "get_poster_image" THEN Stages(Tail(calls))
    ELSE <<Head(calls)>> \o Stages(Tail(calls))

\* The orders in which a query goes through its stages.
StagePaths ==
    { <<"process_user_query", "search_movie", "get_movie_details",
        "find_trailer", "generate_movie_response">>,
      <<"process_user_query", "search_movie",
        "generate_general_response">>,
      <<"process_user_query", "generate_general_response">> }

SynthesisStarted ==
    Called("generate_movie_response") \/ Called("generate_general_response")

\* C15: the stages of a query are called in the order classification,
\* catalog search, detail fetch, trailer resolution, synthesis, each once
\* and each after the call before it has returned (the thread stands where
\* the calls made so far lead), and the callback is not called before the
\* synthesis has started.
C15_StagesRunInOrder ==
    LET stages == Stages(trace)
    IN  /\ \E path \in StagePaths :
              Len(stages) <= Len(path)
              /\ stages = SubSeq(path, 1, Len(stages))
        /\ pc = "handle" => stages = <<>>
        /\ pc \in {"classified", "search"}
              => stages = <<"process_user_query">>
        /\ pc = "details"
              => stages = <<"process_user_query", "search_movie">>
        /\ pc = "trailer"
              => stages = <<"process_user_query", "search_movie",
                           "get_movie_details">>
        /\ pc = "poster"
              => trace = <<"process_user_query", "search_movie",
                          "get_movie_details", "find_trailer">>
        /\ pc \in {"generate", "done"} => SynthesisStarted
        /\ Called("get_poster_image")
              => Len(trace) >= 5 /\ trace[5] = "get_poster_image"
        /\ (sunk # <<>> \/ PendingAppends # <<>> \/ info_text # <<>>)
              => SynthesisStarted

C15_Witness ==
    /\ pc = "done"
    /\ trace = <<"process_user_query", "search_movie", "get_movie_details",
                 "find_trailer", "get_poster_image",
                 "generate_movie_response">>
    /\ Len(sunk) = 2
    /\ info_text # <<>>

---------------------------------------------------------------------------
(* The context and the texts of a synthesis call *)

\* C16: no field of the context of generate_movie_response is None: each
\* holds the record's value or, where the record has none, the default.
C16_ContextHasNoNullField ==
    gen.path = "movie"
        => \A field \in DOMAIN gen.context :
              /\ ~IsNone(gen.context[field])
              /\ field \in {"title", "release_date", "overview",
                             "vote_average", "runtime", "budget", "revenue"}
                    => \/ /\ HasKey(movie_details, field)
                          /\ gen.context[field] = movie_details.dict[field]
                       \/ /\ ~HasKey(movie_details, field)
                          /\ gen.context[field]
                                \in {Unknown, PyStr(<<"N/A">>), PyInt(0),
                                     PyStr(<<"No overview available">>)}

\* C18: the text a streaming call returns is the concatenation of the
\* texts its callback was called with, also when the service failed after
\* it had emitted fragments.
C18_ReturnEqualsSunkText ==
    (pc = "done" /\ gen.path # "none" /\ Streaming)
        => ret = PyStr(Flatten(sunk))

---------------------------------------------------------------------------
(* Two queries *)

\* The thread of the latest query holds the interpreter.
LatestRuns == waiting = NoThread \/ ~waiting.latest

\* The texts the latest query's callback has been called with.
LatestSunk == IF LatestRuns THEN sunk ELSE waiting.sunk

\* C17: a field of MovieAgentGUI that holds the movie details, the trailer
\* or the query of one query is not overwritten while another query is
\* handled.  (Each thread writes each field once, so a field that changes
\* from one value to another is written by the thread of another query.)
C17_NoFieldCrossesQueries ==
    [][/\ current_movie # PyNone => current_movie' = current_movie
       /\ trailer_info # PyNone => trailer_info' = trailer_info
       /\ last_query # PyNone => last_query' = last_query]_vars

\* C19: the display holds text of the latest query only: what it shows is
\* made of the first texts of that query's callback.
C19_DisplayShowsLatestQueryOnly ==
    \E n \in 0..Len(LatestSunk) :
        info_text = Flatten(SubSeq(LatestSunk, 1, n))

\* C20: when the trailer button is enabled, trailer_info holds a trailer,
\* and it is the trailer found by the thread whose film the title shows.
C20_TrailerButtonOpensShownTrailer ==
    trailer_button = "normal"
        => /\ Truthy(trailer_info)
           /\ \E f \in {Frame} \cup ({waiting} \ {NoThread}) :
                 /\ Truthy(f.movie_details)
                 /\ ~MovieTitleText(f.movie_details).raised
                 /\ title_label = MovieTitleText(f.movie_details).val
                 /\ trailer_info = f.trailer

---------------------------------------------------------------------------
(* The search button *)

\* C21: after a query was submitted, the search button that process_query
\* disabled is enabled again.
C21_SearchButtonIsEnabledAgain ==
    (search_button = "disabled") ~> (search_button = "normal")

=============================================================================
